---------------------------- MODULE Spec2Model ----------------------------
(***************************************************************************)
(* canChat backend actor (Motoko): ephemeral chat rooms joined by code.    *)
(*                                                                         *)
(* The actor processes one message at a time; a shared function runs       *)
(* atomically up to its next `await`.  createRoom and joinRoom await the   *)
(* random generators, so they are split at those awaits and other calls    *)
(* may run in between; sendMessage, leaveRoom, endRoom and cleanup have no *)
(* await and are single atomic steps.  Time.now() is constant within one   *)
(* atomic step.                                                            *)
(*                                                                         *)
(* Time is counted in units of SESSION_TIMEOUT (one unit = 20 minutes).    *)
(***************************************************************************)
EXTENDS Integers, Sequences, FiniteSets, TLC

\* ------------------------------------------------------------- bounds
MaxTime == 2
MaxMsgs == 2
MaxSessions == 3
MaxCalls == 2
MaxRetries == 1
BlobSize == 2

\* ------------------------------------------------- program constants
SESSION_TIMEOUT == 1
MAX_ATTEMPTS == 10

\* Values the generators and callers can produce (a small sample of the
\* 36^6 room codes, 36^12 session ids, the principals and the texts).
CodeOrder == <<"AB12CD", "ZZ99ZZ">>
SessionIdOrder == <<"S1", "S2", "S3">>
Codes == {CodeOrder[k] : k \in DOMAIN CodeOrder}
SessionIds == {SessionIdOrder[k] : k \in DOMAIN SessionIdOrder}
Principals == {"alice"}
Contents == {"hi"}

VARIABLES
    rooms,             \* HashMap<RoomCode, Room>
    sessions,          \* HashMap<SessionId, User>
    messageIdCounter,  \* Nat
    userCounter,       \* Nat
    now,               \* the value Time.now() returns
    calls,             \* the createRoom / joinRoom calls suspended at an await,
                       \* in the order they were made
    started,           \* history: number of createRoom / joinRoom calls made
    okSends,           \* history: number of sendMessage calls that returned #Ok
    gen,               \* the locals of a generateRoomCode / generateSessionId call
    ui                 \* the state of the React component App (one browser tab)

vars == <<rooms, sessions, messageIdCounter, userCounter, now, calls, started, okSends,
          gen, ui>>

\* ------------------------------------------------------------ helpers
Digit == <<"0", "1", "2", "3", "4", "5", "6", "7", "8", "9">>

RECURSIVE NatToText(_)
NatToText(n) ==
    IF n < 10 THEN Digit[n + 1]
    ELSE NatToText(n \div 10) \o Digit[(n % 10) + 1]

\* Mutant of DisplayName: the number is left out of the name.
DisplayNameUnnumbered(n) == "User "

DisplayName(n) == "User " \o NatToText(n)

Idle == [pc |-> "idle"]

Ok(value) == [tag |-> "Ok", value |-> value]
Err(text) == [tag |-> "Err", text |-> text]

\* The session ids of a participants array
SidsOf(participants) == {participants[k].sessionId : k \in DOMAIN participants}

\* Mutant of AlreadyInRoom: joinRoom never finds the session id in the room.
AlreadyInRoomNever(room, sessionId) == FALSE

\* Array.find(room.participants, u.sessionId == sessionId) != null, the test
\* of joinRoom
AlreadyInRoom(room, sessionId) == sessionId \in SidsOf(room.participants)

\* Mutant of IsParticipant: sendMessage never finds the sender in the room.
IsParticipantNever(participants, sid) == FALSE

\* Array.find(room.participants, u.sessionId == sessionId) is ?user, the
\* switch of sendMessage
IsParticipant(participants, sid) == sid \in SidsOf(participants)

\* Mutants of IsCreator: everybody, or nobody, passes for the creator.
IsCreatorAlways(room, sessionId) == TRUE
IsCreatorNever(room, sessionId) == FALSE

\* room.creator == sessionId, the test of endRoom
IsCreator(room, sessionId) == room.creator = sessionId

\* Array.find(participants, u.sessionId == sid): the first such participant
FindUser(participants, sid) ==
    participants[CHOOSE k \in DOMAIN participants :
                    /\ participants[k].sessionId = sid
                    /\ \A j \in 1..(k - 1) : participants[j].sessionId # sid]

\* Mutants of FilterOut: the filter keeps everybody, or nobody.
FilterNone(participants, sid) == participants
FilterAll(participants, sid) == <<>>

\* Array.filter(participants, u.sessionId != sid)
FilterOut(participants, sid) ==
    SelectSeq(participants, LAMBDA u : u.sessionId # sid)

\* Mutant of Put: a put on a key already present is lost.
PutLost(map, k, v) ==
    IF k \in DOMAIN map THEN map
    ELSE [x \in DOMAIN map \cup {k} |-> IF x = k THEN v ELSE map[x]]

\* HashMap.put / HashMap.delete
Put(map, k, v) == [x \in DOMAIN map \cup {k} |-> IF x = k THEN v ELSE map[x]]
Delete(map, k) == [x \in DOMAIN map \ {k} |-> map[x]]

\* now - room.lastActivity > SESSION_TIMEOUT, the test of the sweep
Expired(room, t) == t - room.lastActivity > SESSION_TIMEOUT

\* Mutant of isRoomValid: a room exactly SESSION_TIMEOUT old is not valid.
isRoomValidStrict(rs, roomCode, t) ==
    IF roomCode \in DOMAIN rs
    THEN t - rs[roomCode].lastActivity < SESSION_TIMEOUT
    ELSE FALSE

\* Mutant of isRoomValid: no room is valid.
isRoomValidNever(rs, roomCode, t) == FALSE

isRoomValid(rs, roomCode, t) ==
    IF roomCode \in DOMAIN rs
    THEN t - rs[roomCode].lastActivity <= SESSION_TIMEOUT
    ELSE FALSE

\* cleanupExpiredRooms: the rooms and the sessions it leaves
SweepRooms(rs, t) ==
    [c \in {x \in DOMAIN rs : ~Expired(rs[x], t)} |-> rs[c]]

SweepSessions(ss, t) ==
    [s \in {x \in DOMAIN ss : ~(t - ss[x].joinedAt > SESSION_TIMEOUT)} |-> ss[s]]

\* Mutant of createOrGetUser: the new record is not put in the registry.
createOrGetUserUnstored(ss, uc, sessionId, principal, t) ==
    IF sessionId \in DOMAIN ss
    THEN [user |-> ss[sessionId], sessions |-> ss, userCounter |-> uc]
    ELSE [user |-> [sessionId |-> sessionId, principal |-> principal,
                    displayName |-> DisplayName(uc + 1), joinedAt |-> t],
          sessions |-> ss, userCounter |-> uc + 1]

\* createOrGetUser: the user returned, and the registry and counter after it
createOrGetUser(ss, uc, sessionId, principal, t) ==
    IF sessionId \in DOMAIN ss
    THEN [user |-> ss[sessionId], sessions |-> ss, userCounter |-> uc]
    ELSE LET user == [sessionId |-> sessionId,
                      principal |-> principal,
                      displayName |-> DisplayName(uc + 1),
                      joinedAt |-> t]
         IN [user |-> user, sessions |-> Put(ss, sessionId, user), userCounter |-> uc + 1]

\* Mutant of CodeTaken: the loop never sees a collision.
CodeTakenNever(rs, roomCode) == FALSE

\* rooms.get(roomCode) != null, the loop test of createRoom
CodeTaken(rs, roomCode) == roomCode \in DOMAIN rs

\* Mutant of NextCounter: the increment is lost.
NextCounterStuck(counter) == counter

\* messageIdCounter += 1
NextCounter(counter) == counter + 1

\* Mutant of WithMessage: the message is appended, the activity not stamped.
WithMessageOnly(room, message, t) ==
    [room EXCEPT !.messages = Append(room.messages, message)]

\* { room with messages = Array.append(room.messages, [message]);
\*   lastActivity = Time.now() }, the updated room of sendMessage
WithMessage(room, message, t) ==
    [room EXCEPT !.messages = Append(room.messages, message),
                 !.lastActivity = t]

\* ------------------------------------------------------- the handlers
\* Each handler, or each of its segments between two awaits, as a function of
\* the actor state it reads (rs: rooms, ss: sessions, mc: messageIdCounter,
\* uc: userCounter, t: Time.now()) to the state it leaves and its response.

\* Mutant of Attempts: `attempts += 1` is lost.
AttemptsStuck(call) == call.attempts

\* The value of `attempts` when a suspended createRoom evaluates its loop test
\* next: a call suspended inside the loop (line 217) increments it on resuming.
Attempts(call) == IF call.pc = "cr_retry" THEN call.attempts + 1 ELSE call.attempts

\* createRoom, resumed with a generated room code: the retry loop, the
\* failure and the insert.  `call` holds the locals of the suspended call.
createRoomCode(rs, t, call, roomCode) ==
    LET attempts == Attempts(call)
    IN IF CodeTaken(rs, roomCode) /\ attempts < MAX_ATTEMPTS
       THEN [rooms |-> rs,
             call |-> [call EXCEPT !.pc = "cr_retry", !.attempts = attempts],
             result |-> [tag |-> "await"]]
       ELSE IF attempts >= MAX_ATTEMPTS
       THEN [rooms |-> rs, call |-> Idle,
             result |-> Err("Failed to generate unique room code")]
       ELSE LET room == [code |-> roomCode,
                         creator |-> call.sessionId,
                         participants |-> <<call.user>>,
                         messages |-> <<>>,
                         createdAt |-> t,
                         lastActivity |-> t]
            IN [rooms |-> Put(rs, roomCode, room), call |-> Idle,
                result |-> Ok([roomCode |-> roomCode, room |-> room,
                               sessionId |-> call.sessionId])]

\* joinRoom up to `await generateSessionId()`, or to its early return
joinRoomBegin(rs, ss, t, principal, roomCode) ==
    LET swept == SweepRooms(rs, t)
        ss1 == SweepSessions(ss, t)
    IN IF roomCode \in DOMAIN swept
       THEN IF ~isRoomValid(swept, roomCode, t)
            THEN [rooms |-> Delete(swept, roomCode), sessions |-> ss1, call |-> Idle,
                  result |-> Err("Room has expired")]
            ELSE [rooms |-> swept, sessions |-> ss1,
                  call |-> [pc |-> "jr_sid", caller |-> principal,
                            roomCode |-> roomCode, room |-> swept[roomCode]],
                  result |-> [tag |-> "await"]]
       ELSE [rooms |-> swept, sessions |-> ss1, call |-> Idle,
             result |-> Err("Room not found")]

\* joinRoom from the generated session id to its return; call.room is the
\* room read before the await
joinRoomSession(rs, ss, uc, t, call, sessionId) ==
    LET room == call.room
        r == createOrGetUser(ss, uc, sessionId, call.caller, t)
    IN IF AlreadyInRoom(room, sessionId)
       THEN [rooms |-> rs, sessions |-> r.sessions, userCounter |-> r.userCounter,
             result |-> Ok([room |-> room, sessionId |-> sessionId])]
       ELSE LET updatedRoom == [room EXCEPT
                                   !.participants = Append(room.participants, r.user),
                                   !.lastActivity = t]
            IN [rooms |-> Put(rs, call.roomCode, updatedRoom),
                sessions |-> r.sessions, userCounter |-> r.userCounter,
                result |-> Ok([room |-> updatedRoom, sessionId |-> sessionId])]

sendMessage(rs, ss, mc, t, roomCode, sessionId, content) ==
    LET swept == SweepRooms(rs, t)
        ss1 == SweepSessions(ss, t)
    IN IF roomCode \in DOMAIN swept
       THEN LET room == swept[roomCode]
            IN IF ~isRoomValid(swept, roomCode, t)
               THEN [rooms |-> Delete(swept, roomCode), sessions |-> ss1,
                     messageIdCounter |-> mc, result |-> Err("Room has expired")]
               ELSE IF IsParticipant(room.participants, sessionId)
               THEN LET user == FindUser(room.participants, sessionId)
                        message == [id |-> mc,
                                    sender |-> sessionId,
                                    senderName |-> user.displayName,
                                    content |-> content,
                                    timestamp |-> t]
                        updatedRoom == WithMessage(room, message, t)
                    IN [rooms |-> Put(swept, roomCode, updatedRoom), sessions |-> ss1,
                        messageIdCounter |-> NextCounter(mc), result |-> Ok(message)]
               ELSE [rooms |-> swept, sessions |-> ss1, messageIdCounter |-> mc,
                     result |-> Err("You are not a member of this room")]
       ELSE [rooms |-> swept, sessions |-> ss1, messageIdCounter |-> mc,
             result |-> Err("Room not found")]

endRoom(rs, roomCode, sessionId) ==
    IF roomCode \in DOMAIN rs
    THEN IF IsCreator(rs[roomCode], sessionId)
         THEN [rooms |-> Delete(rs, roomCode), result |-> TRUE]
         ELSE [rooms |-> rs, result |-> FALSE]
    ELSE [rooms |-> rs, result |-> FALSE]

leaveRoom(rs, t, roomCode, sessionId) ==
    IF roomCode \in DOMAIN rs
    THEN LET room == rs[roomCode]
             updatedParticipants == FilterOut(room.participants, sessionId)
         IN IF Len(updatedParticipants) = 0
            THEN [rooms |-> Delete(rs, roomCode), result |-> TRUE]
            ELSE [rooms |-> Put(rs, roomCode,
                                [room EXCEPT !.participants = updatedParticipants,
                                             !.lastActivity = t]),
                  result |-> TRUE]
    ELSE [rooms |-> rs, result |-> FALSE]

\* queries: ?Room as a sequence of at most one room
getRoom(rs, roomCode) ==
    IF roomCode \in DOMAIN rs THEN <<rs[roomCode]>> ELSE <<>>

getMessages(rs, roomCode) ==
    IF roomCode \in DOMAIN rs THEN rs[roomCode].messages ELSE <<>>

\* The suspended calls after call i took a step that left it as `call`
\* (Idle: it returned).
Resumed(cs, i, call) ==
    IF call = Idle
    THEN SubSeq(cs, 1, i - 1) \o SubSeq(cs, i + 1, Len(cs))
    ELSE [cs EXCEPT ![i] = call]

\* A call that suspends joins the suspended calls; one that returns at once
\* does not.
Suspended(cs, call) == IF call = Idle THEN cs ELSE Append(cs, call)

\* A createRoom or joinRoom call arrives; at most MaxSessions are made in a run.
Called ==
    /\ started < MaxSessions
    /\ started' = started + 1

\* The session ids and room codes that occur somewhere in the state.
RoomSids(room) ==
    {room.creator} \cup SidsOf(room.participants)
        \cup {room.messages[k].sender : k \in DOMAIN room.messages}

CallSids(call) ==
    IF call.pc \in {"cr_code", "cr_retry"} THEN {call.sessionId}
    ELSE IF call.pc = "jr_sid" THEN RoomSids(call.room)
    ELSE {}

UsedSids ==
    DOMAIN sessions
        \cup UNION {RoomSids(rooms[c]) : c \in DOMAIN rooms}
        \cup UNION {CallSids(calls[i]) : i \in DOMAIN calls}

UsedCodes ==
    DOMAIN rooms \cup {calls[i].roomCode : i \in {j \in DOMAIN calls : calls[j].pc = "jr_sid"}}

\* The values a generator or a caller can supply.  Values that occur nowhere
\* in the state are interchangeable (the code only compares them for
\* equality), so only the first of them in the enumeration is supplied.
FirstUnused(order, used) ==
    {order[k] : k \in {j \in DOMAIN order :
                          /\ order[j] \notin used
                          /\ \A h \in 1..(j - 1) : order[h] \in used}}

SidChoices == UsedSids \cup FirstUnused(SessionIdOrder, UsedSids)
CodeChoices == UsedCodes \cup FirstUnused(CodeOrder, UsedCodes)

\* No generator call is modelled step by step, no browser tab is open.
NoGeneration == [pc |-> "none"]
Unmounted == [pc |-> "unmounted"]

\* --------------------------------------------------------------- Init
Init ==
    /\ rooms = <<>>
    /\ sessions = <<>>
    /\ messageIdCounter = 0
    /\ userCounter = 0
    /\ now = 0
    /\ calls = <<>>
    /\ started = 0
    /\ okSends = 0
    /\ gen = NoGeneration
    /\ ui = Unmounted

\* ------------------------------------------------------------ actions
\* The clock advances between atomic steps.
Tick ==
    /\ now < MaxTime
    /\ now' = now + 1
    /\ UNCHANGED <<rooms, sessions, messageIdCounter, userCounter, calls, started, okSends, gen, ui>>

\* createRoom up to `await generateSessionId()`
CreateRoomStart(p) ==
    /\ Len(calls) < MaxCalls
    /\ Called
    /\ rooms' = SweepRooms(rooms, now)
    /\ sessions' = SweepSessions(sessions, now)
    /\ calls' = Suspended(calls, [pc |-> "cr_sid", caller |-> p])
    /\ UNCHANGED <<messageIdCounter, userCounter, now, okSends, gen, ui>>

\* createRoom from the session id to `await generateRoomCode()`
CreateRoomGotSession(i, sid) ==
    /\ i \in DOMAIN calls
    /\ calls[i].pc = "cr_sid"
    /\ LET r == createOrGetUser(sessions, userCounter, sid, calls[i].caller, now)
       IN /\ sessions' = r.sessions
          /\ userCounter' = r.userCounter
          /\ calls' = Resumed(calls, i, [pc |-> "cr_code", caller |-> calls[i].caller,
                                             sessionId |-> sid, user |-> r.user,
                                             attempts |-> 0])
    /\ UNCHANGED <<rooms, messageIdCounter, now, started, okSends, gen, ui>>

\* createRoom resumed with a generated room code
CreateRoomGotCode(i, roomCode) ==
    /\ i \in DOMAIN calls
    /\ calls[i].pc \in {"cr_code", "cr_retry"}
    /\ LET o == createRoomCode(rooms, now, calls[i], roomCode)
       IN /\ rooms' = o.rooms
          /\ calls' = Resumed(calls, i, o.call)
    /\ UNCHANGED <<sessions, messageIdCounter, userCounter, now, started, okSends, gen, ui>>

\* The generator may return a colliding code to a call only while the call
\* has retried fewer than MaxRetries times.
RetriesBounded(i, roomCode) ==
    /\ i \in DOMAIN calls
    /\ calls[i].pc \in {"cr_code", "cr_retry"}
    /\ CodeTaken(rooms, roomCode) => Attempts(calls[i]) < MaxRetries

JoinRoomStart(p, roomCode) ==
    /\ Len(calls) < MaxCalls
    /\ Called
    /\ LET o == joinRoomBegin(rooms, sessions, now, p, roomCode)
       IN /\ rooms' = o.rooms
          /\ sessions' = o.sessions
          /\ calls' = Suspended(calls, o.call)
    /\ UNCHANGED <<messageIdCounter, userCounter, now, okSends, gen, ui>>

JoinRoomGotSession(i, sid) ==
    /\ i \in DOMAIN calls
    /\ calls[i].pc = "jr_sid"
    /\ LET o == joinRoomSession(rooms, sessions, userCounter, now, calls[i], sid)
       IN /\ rooms' = o.rooms
          /\ sessions' = o.sessions
          /\ userCounter' = o.userCounter
    /\ calls' = Resumed(calls, i, Idle)
    /\ UNCHANGED <<messageIdCounter, now, started, okSends, gen, ui>>

SendMessage(roomCode, sessionId, content) ==
    /\ messageIdCounter < MaxMsgs
    /\ LET o == sendMessage(rooms, sessions, messageIdCounter, now,
                            roomCode, sessionId, content)
       IN /\ rooms' = o.rooms
          /\ sessions' = o.sessions
          /\ messageIdCounter' = o.messageIdCounter
          /\ okSends' = IF o.result.tag = "Ok" THEN okSends + 1 ELSE okSends
    /\ UNCHANGED <<userCounter, now, calls, started, gen, ui>>

EndRoom(roomCode, sessionId) ==
    /\ rooms' = endRoom(rooms, roomCode, sessionId).rooms
    /\ UNCHANGED <<sessions, messageIdCounter, userCounter, now, calls, started, okSends, gen, ui>>

LeaveRoom(roomCode, sessionId) ==
    /\ rooms' = leaveRoom(rooms, now, roomCode, sessionId).rooms
    /\ UNCHANGED <<sessions, messageIdCounter, userCounter, now, calls, started, okSends, gen, ui>>

Cleanup ==
    /\ rooms' = SweepRooms(rooms, now)
    /\ sessions' = SweepSessions(sessions, now)
    /\ UNCHANGED <<messageIdCounter, userCounter, now, calls, started, okSends, gen, ui>>

\* The calls made to the actor and the resumptions of suspended calls.
Handlers ==
    \/ \E p \in Principals : CreateRoomStart(p)
    \/ \E i \in 1..MaxCalls, sid \in SidChoices : CreateRoomGotSession(i, sid)
    \/ \E i \in 1..MaxCalls, c \in CodeChoices :
          RetriesBounded(i, c) /\ CreateRoomGotCode(i, c)
    \/ \E p \in Principals, c \in CodeChoices : JoinRoomStart(p, c)
    \/ \E i \in 1..MaxCalls, sid \in SidChoices : JoinRoomGotSession(i, sid)
    \/ \E c \in CodeChoices, sid \in SidChoices, m \in Contents : SendMessage(c, sid, m)
    \/ \E c \in CodeChoices, sid \in SidChoices : EndRoom(c, sid)
    \/ \E c \in CodeChoices, sid \in SidChoices : LeaveRoom(c, sid)
    \/ Cleanup

Next ==
    \/ Tick
    \/ Handlers

Spec == Init /\ [][Next]_vars

\* ------------------------------------------------ the clock never stops
\* For the liveness claims the clock must be able to advance for ever.  The
\* actor starts when the clock shows MaxTime, and a unit of time is counted by
\* moving the origin of time instead of the clock: every stored timestamp
\* becomes one unit older.  A timestamp at the origin stays there: it is then
\* at least MaxTime old, which is older than SESSION_TIMEOUT, and the code
\* only asks whether a timestamp is older than SESSION_TIMEOUT.
Older(t) == IF t > 0 THEN t - 1 ELSE 0

OlderUser(u) == [u EXCEPT !.joinedAt = Older(@)]

OlderRoom(room) ==
    [room EXCEPT
        !.participants = [k \in DOMAIN @ |-> OlderUser(@[k])],
        !.messages = [k \in DOMAIN @ |-> [@[k] EXCEPT !.timestamp = Older(@)]],
        !.createdAt = Older(@),
        !.lastActivity = Older(@)]

OlderCall(call) ==
    IF call.pc \in {"cr_code", "cr_retry"} THEN [call EXCEPT !.user = OlderUser(@)]
    ELSE IF call.pc = "jr_sid" THEN [call EXCEPT !.room = OlderRoom(@)]
    ELSE call

Elapse ==
    /\ rooms' = [c \in DOMAIN rooms |-> OlderRoom(rooms[c])]
    /\ sessions' = [s \in DOMAIN sessions |-> OlderUser(sessions[s])]
    /\ calls' = [i \in DOMAIN calls |-> OlderCall(calls[i])]
    /\ UNCHANGED <<messageIdCounter, userCounter, now, started, okSends, gen, ui>>

FairInit ==
    /\ rooms = <<>>
    /\ sessions = <<>>
    /\ messageIdCounter = 0
    /\ userCounter = 0
    /\ now = MaxTime
    /\ calls = <<>>
    /\ started = 0
    /\ okSends = 0
    /\ gen = NoGeneration
    /\ ui = Unmounted

FairNext ==
    \/ Elapse
    \/ Handlers

\* Time passes, and a sweep runs if there keeps being something to sweep.
FairSpec ==
    /\ FairInit
    /\ [][FairNext]_vars
    /\ WF_vars(Elapse)
    /\ SF_vars(Cleanup)

\* ------------------------------------------------ the retries of createRoom
\* createRoom calls alone, with a generator free to return a colliding code
\* at every attempt, and endRoom to free a code while a call is retrying.
RetryNext ==
    \/ \E p \in Principals : CreateRoomStart(p)
    \/ \E i \in 1..MaxCalls, sid \in SidChoices : CreateRoomGotSession(i, sid)
    \/ \E i \in 1..MaxCalls, c \in CodeChoices : CreateRoomGotCode(i, c)
    \/ \E c \in CodeChoices, sid \in SidChoices : EndRoom(c, sid)

RetrySpec == Init /\ [][RetryNext]_vars

\* Every await of a suspended createRoom returns: the generators fetch their
\* entropy and the rejection sampling accepts in the end.
RetryFairSpec ==
    /\ Init
    /\ [][RetryNext]_vars
    /\ WF_vars(\E i \in 1..MaxCalls, sid \in SidChoices : CreateRoomGotSession(i, sid))
    /\ WF_vars(\E i \in 1..MaxCalls, c \in CodeChoices : CreateRoomGotCode(i, c))

\* ------------------------------------------------ the session registry
\* createRoom and joinRoom calls made by two callers, the sweep and the
\* clock: the operations that read or write `sessions` and `userCounter`.
Callers == {"alice", "bob"}

RegistryNext ==
    \/ Tick
    \/ \E p \in Callers : CreateRoomStart(p)
    \/ \E i \in 1..MaxCalls, sid \in SidChoices : CreateRoomGotSession(i, sid)
    \/ \E i \in 1..MaxCalls, c \in CodeChoices :
          RetriesBounded(i, c) /\ CreateRoomGotCode(i, c)
    \/ \E p \in Callers, c \in CodeChoices : JoinRoomStart(p, c)
    \/ \E i \in 1..MaxCalls, sid \in SidChoices : JoinRoomGotSession(i, sid)
    \/ Cleanup

RegistrySpec == Init /\ [][RegistryNext]_vars

\* ------------------------------------------------ the code generators
\* generateRoomCode and generateSessionId step by step.  A Text is the
\* sequence of its characters.  Random.blob() returns BlobSize bytes (32 on
\* the platform), drawn here from a few byte values on both sides of the
\* acceptance bound: 35 and 64 are accepted (64 has the index 0 once masked to
\* 6 bits), 36 and 255 are rejected.
alphabet ==
    <<"A", "B", "C", "D", "E", "F", "G", "H", "I", "J", "K", "L", "M",
      "N", "O", "P", "Q", "R", "S", "T", "U", "V", "W", "X", "Y", "Z",
      "0", "1", "2", "3", "4", "5", "6", "7", "8", "9">>

ROOM_CODE_LENGTH == 6
SESSION_ID_LENGTH == 12

ByteSamples == {35, 36, 64, 255}
Blobs == [1..BlobSize -> ByteSamples]

\* The outcome `assert false` of charAt
Trap == "assert false"

\* var p = 0; var m = n - 1; while (m > 0) { p += 1; m /= 2 }: the p left
RECURSIVE BitsFor(_)
BitsFor(m) == IF m > 0 THEN 1 + BitsFor(m \div 2) ELSE 0

\* f.range(p) for p < 8: null (no value) when the entropy is used up, else
\* the low p bits of the next byte, which it consumes
range(f, p) ==
    IF f = <<>>
    THEN [value |-> <<>>, f |-> f]
    ELSE [value |-> <<f[1] % (2 ^ p)>>, f |-> Tail(f)]

\* sampleIndex(f, n): ?k as a sequence of at most one index, and the entropy
\* left in f
RECURSIVE sampleIndex(_, _)
sampleIndex(f, n) ==
    LET p == BitsFor(n - 1)
        r == range(f, p)
    IN IF r.value # <<>>
       THEN IF r.value[1] < n THEN r ELSE sampleIndex(r.f, n)
       ELSE r

\* Mutant of charAt: the index is taken as counting from one.
charAtOneBased(t, idx) == IF idx >= 1 /\ idx <= Len(t) THEN t[idx] ELSE Trap

\* charAt(t, idx): the character at position idx counted from zero; the
\* assertion fails when the loop ends without reaching idx
charAt(t, idx) == IF idx < Len(t) THEN t[idx + 1] ELSE Trap

\* The loop `while (i < length)` of a generator from the arrival of an entropy
\* blob f to the next `await Random.blob()`, to the return of the code or to
\* the failed assertion
RECURSIVE generateLoop(_, _, _, _)
generateLoop(length, code, i, f) ==
    IF i < length
    THEN LET r == sampleIndex(f, Len(alphabet))
         IN IF r.value # <<>>
            THEN LET c == charAt(alphabet, r.value[1])
                 IN IF c = Trap
                    THEN [pc |-> "trap", length |-> length, code |-> code, i |-> i]
                    ELSE generateLoop(length, Append(code, c), i + 1, r.f)
            ELSE [pc |-> "blob", length |-> length, code |-> code, i |-> i]
    ELSE [pc |-> "done", length |-> length, code |-> code, i |-> i]

\* generateRoomCode() or generateSessionId() is called: up to the first
\* `await Random.blob()`
GenerateStart(length) ==
    /\ gen = NoGeneration
    /\ gen' = [pc |-> "blob", length |-> length, code |-> <<>>, i |-> 0]
    /\ UNCHANGED <<rooms, sessions, messageIdCounter, userCounter, now, calls,
                   started, okSends, ui>>

\* `await Random.blob()` returns
GenerateGotBlob(blob) ==
    /\ gen.pc = "blob"
    /\ gen' = generateLoop(gen.length, gen.code, gen.i, blob)
    /\ UNCHANGED <<rooms, sessions, messageIdCounter, userCounter, now, calls,
                   started, okSends, ui>>

\* The caller receives the code.
GenerateReturn ==
    /\ gen.pc = "done"
    /\ gen' = NoGeneration
    /\ UNCHANGED <<rooms, sessions, messageIdCounter, userCounter, now, calls,
                   started, okSends, ui>>

GenNext ==
    \/ \E length \in {ROOM_CODE_LENGTH, SESSION_ID_LENGTH} : GenerateStart(length)
    \/ \E blob \in Blobs : GenerateGotBlob(blob)
    \/ GenerateReturn

GenSpec == Init /\ [][GenNext]_vars

\* ------------------------------------------------------------ the UI
\* The React component App in one browser tab.  `ui` holds its state hooks,
\* the URL, the auto-join timer and the backend calls in flight, and as
\* history the URL at mount, the joinRoom calls issued and whether the poll
\* saw the room gone since the room was entered; the backend
\* is its environment here and answers with any value of its interface.  A
\* JavaScript string is the sequence of its characters.  The user starts one
\* call at a time; the room poll runs beside it.
SESSION_TIMEOUT_MS == 20 * 60 * 1000

\* Date.now()
DateNow(t) == t * SESSION_TIMEOUT_MS

\* Number(room.lastActivity) / 1_000_000, for a backend time t counted in
\* units of SESSION_TIMEOUT: (t * 20 * 60 * 10^9 ns) / 10^6 = t * 20 * 60 * 10^3
NsToMs(t) == t * (20 * 60 * 1000)

LowerCase == <<"a", "b", "c", "d">>
UpperCase == <<"A", "B", "C", "D">>

\* String.prototype.toUpperCase
toUpperCase(str) ==
    [k \in DOMAIN str |->
        IF \E j \in DOMAIN LowerCase : LowerCase[j] = str[k]
        THEN UpperCase[CHOOSE j \in DOMAIN LowerCase : LowerCase[j] = str[k]]
        ELSE str[k]]

\* String.prototype.trim
RECURSIVE trim(_)
trim(str) ==
    IF str = <<>> THEN str
    ELSE IF Head(str) = " " THEN trim(Tail(str))
    ELSE IF str[Len(str)] = " " THEN trim(SubSeq(str, 1, Len(str) - 1))
    ELSE str

\* The values of the refID query parameter (none: the parameter is absent),
\* the texts the user types and the answers of the backend.
RefIds ==
    { <<"a", "b", "1", "2", "c", "d">>, <<"A", "B", "1", "2", "C", "D">>,
      <<"a", "b", "1", "2", "c">>, <<"a", "b", "1", "2", "c", "d", "e">>, <<>> }
Urls == {<<>>} \cup {<<r>> : r \in RefIds}
Typed == { <<"a", "b", "1", "2", "c", "d">>, <<" ">> }
\* ?Room as a sequence of at most one room; only lastActivity is read
RoomAnswers(t) == {<<>>} \cup {<<[lastActivity |-> a]>> : a \in 0..t}

\* The state after the first render: the initial values of the useState hooks
\* and the page's URL.
Mounted(url) ==
    [pc |-> "mounted", url |-> url, mountUrl |-> url,
     currentView |-> "home", roomCode |-> <<>>, joinCode |-> <<>>,
     newMessage |-> "", room |-> <<>>, error |-> "", isCreator |-> FALSE,
     sessionId |-> "", remainingMs |-> <<>>, isExpired |-> FALSE,
     showExpiredModal |-> FALSE,
     timer |-> "none", timerJoinCode |-> <<>>,
     call |-> <<>>, poll |-> <<>>,
     issued |-> {}, observedGone |-> FALSE]

\* tick of the countdown effect.  (A lastActivity is never the falsy 0n: time
\* 0 here is the origin of the model's clock, not the epoch.)
tick(u, t) ==
    IF u.room = <<>> THEN u
    ELSE LET lastActivityMs == NsToMs(u.room[1].lastActivity)
             elapsed == DateNow(t) - lastActivityMs
             remaining == SESSION_TIMEOUT_MS - elapsed
             expiredNow == remaining <= 0
         IN [u EXCEPT !.remainingMs = <<IF remaining > 0 THEN remaining ELSE 0>>,
                      !.isExpired = expiredNow,
                      !.showExpiredModal = IF expiredNow THEN TRUE ELSE @]

\* The effects that run after a render in which currentView, roomCode or room
\* changed: the URL is set to the room's link, the countdown effect calls
\* tick() at once.
Rendered(u, t) ==
    IF u.currentView = "room"
    THEN tick([u EXCEPT !.url = IF u.roomCode # <<>> THEN <<u.roomCode>> ELSE @], t)
    ELSE u

\* handleJoinRoom as created by a render in which the state joinCode had the
\* value joinCode; `by` records who called it.
handleJoinRoom(u, joinCode, by) ==
    IF trim(joinCode) = <<>>
    THEN [u EXCEPT !.error = "Please enter a room code"]
    ELSE [u EXCEPT !.error = "",
                   !.call = <<[op |-> "joinRoom",
                               roomCode |-> toUpperCase(trim(joinCode))]>>,
                   !.issued = @ \cup {[roomCode |-> toUpperCase(trim(joinCode)),
                                        by |-> by]}]

UiStep(u) ==
    /\ ui' = u
    /\ UNCHANGED <<rooms, sessions, messageIdCounter, userCounter, now, calls,
                   started, okSends, gen>>

\* The page loads: first render, then the mount effect on the refID.  The
\* timer's callback calls the handleJoinRoom of this first render.
Mount(url) ==
    /\ ui = Unmounted
    /\ LET u == Mounted(url)
       IN IF url # <<>> /\ url[1] # <<>> /\ Len(url[1]) = 6
          THEN UiStep([u EXCEPT !.joinCode = toUpperCase(url[1]),
                                !.currentView = "join",
                                !.timer = "armed",
                                !.timerJoinCode = u.joinCode])
          ELSE UiStep(u)

\* The 100 ms timer of the mount effect fires.
AutoJoinTimer ==
    /\ ui.pc = "mounted" /\ ui.timer = "armed" /\ ui.call = <<>>
    /\ UiStep(handleJoinRoom([ui EXCEPT !.timer = "fired"], ui.timerJoinCode, "timer"))

ShowJoinView ==
    /\ ui.pc = "mounted" /\ ui.currentView = "home"
    /\ UiStep([ui EXCEPT !.currentView = "join"])

BackToHome ==
    /\ ui.pc = "mounted" /\ ui.currentView = "join"
    /\ UiStep([ui EXCEPT !.currentView = "home"])

TypeJoinCode(text) ==
    /\ ui.pc = "mounted" /\ ui.currentView = "join"
    /\ UiStep([ui EXCEPT !.joinCode = toUpperCase(text)])

ClickJoin ==
    /\ ui.pc = "mounted" /\ ui.currentView = "join" /\ ui.call = <<>>
    /\ UiStep(handleJoinRoom(ui, ui.joinCode, "click"))

\* joinRoom answers: result is <<room>> for #Ok, <<>> for #Err
JoinRoomReturns(result) ==
    /\ ui.pc = "mounted" /\ ui.call # <<>> /\ ui.call[1].op = "joinRoom"
    /\ IF result # <<>>
       THEN UiStep(Rendered([ui EXCEPT !.call = <<>>,
                                       !.roomCode = ui.call[1].roomCode,
                                       !.room = result,
                                       !.sessionId = "S2",
                                       !.isCreator = FALSE,
                                       !.currentView = "room",
                                       !.showExpiredModal = FALSE,
                                       !.isExpired = FALSE,
                                       !.observedGone = FALSE], now))
       ELSE UiStep([ui EXCEPT !.call = <<>>, !.error = "Room not found"])

\* handleCreateRoom up to the await
ClickCreate ==
    /\ ui.pc = "mounted" /\ ui.currentView = "home" /\ ui.call = <<>>
    /\ UiStep([ui EXCEPT !.error = "", !.call = <<[op |-> "createRoom"]>>])

CreateRoomReturns(result) ==
    /\ ui.pc = "mounted" /\ ui.call # <<>> /\ ui.call[1].op = "createRoom"
    /\ IF result # <<>>
       THEN UiStep(Rendered([ui EXCEPT !.call = <<>>,
                                       !.roomCode = <<"A", "B", "1", "2", "C", "D">>,
                                       !.room = result,
                                       !.sessionId = "S1",
                                       !.isCreator = TRUE,
                                       !.currentView = "room",
                                       !.showExpiredModal = FALSE,
                                       !.isExpired = FALSE,
                                       !.observedGone = FALSE], now))
       ELSE UiStep([ui EXCEPT !.call = <<>>,
                              !.error = "Failed to generate unique room code"])

\* The 5 s interval of the room poll: getRoom is called
PollRoom ==
    /\ ui.pc = "mounted" /\ ui.currentView = "room" /\ ui.roomCode # <<>>
    /\ ui.poll = <<>>
    /\ UiStep([ui EXCEPT !.poll = <<ui.roomCode>>])

\* getRoom answers: result is ?Room as a sequence of at most one room
PollRoomReturns(result) ==
    /\ ui.pc = "mounted" /\ ui.poll # <<>>
    /\ IF result # <<>>
       THEN UiStep(Rendered([ui EXCEPT !.poll = <<>>, !.room = <<result[1]>>], now))
       ELSE UiStep([ui EXCEPT !.poll = <<>>,
                              !.isExpired = TRUE,
                              !.showExpiredModal = TRUE,
                              !.observedGone = (ui.currentView = "room")])

\* The 1 s interval of the countdown effect
CountdownTick ==
    /\ ui.pc = "mounted" /\ ui.currentView = "room"
    /\ UiStep(tick(ui, now))

\* handleEndRoom (the button is disabled while isExpired)
ClickEndRoom ==
    /\ ui.pc = "mounted" /\ ui.currentView = "room" /\ ui.call = <<>>
    /\ ui.isCreator /\ ~ui.isExpired
    /\ UiStep([ui EXCEPT !.call = <<[op |-> "endRoom"]>>])

EndRoomReturns(ok) ==
    /\ ui.pc = "mounted" /\ ui.call # <<>> /\ ui.call[1].op = "endRoom"
    /\ IF ok
       THEN UiStep([ui EXCEPT !.call = <<>>, !.showExpiredModal = TRUE, !.isExpired = TRUE])
       ELSE UiStep([ui EXCEPT !.call = <<>>, !.error = "Failed to end room."])

TypeMessage ==
    /\ ui.pc = "mounted" /\ ui.currentView = "room" /\ ~ui.isExpired
    /\ UiStep([ui EXCEPT !.newMessage = "hi"])

\* handleSendMessage up to the await
ClickSend ==
    /\ ui.pc = "mounted" /\ ui.currentView = "room" /\ ui.call = <<>>
    /\ ~(ui.newMessage = "" \/ ui.sessionId = "" \/ ui.isExpired)
    /\ UiStep([ui EXCEPT !.call = <<[op |-> "sendMessage"]>>])

SendMessageReturns(ok) ==
    /\ ui.pc = "mounted" /\ ui.call # <<>> /\ ui.call[1].op = "sendMessage"
    /\ IF ok
       THEN UiStep([ui EXCEPT !.call = <<>>, !.newMessage = ""])
       ELSE UiStep([ui EXCEPT !.call = <<>>, !.error = "Room not found"])

\* handleLeaveRoom up to the await
ClickLeave ==
    /\ ui.pc = "mounted" /\ ui.currentView = "room" /\ ui.call = <<>>
    /\ UiStep([ui EXCEPT !.call = <<[op |-> "leaveRoom"]>>])

LeaveRoomReturns ==
    /\ ui.pc = "mounted" /\ ui.call # <<>> /\ ui.call[1].op = "leaveRoom"
    /\ UiStep([ui EXCEPT !.call = <<>>,
                         !.currentView = "home",
                         !.roomCode = <<>>,
                         !.room = <<>>,
                         !.newMessage = "",
                         !.error = "",
                         !.isCreator = FALSE,
                         !.sessionId = "",
                         !.url = <<>>,
                         !.observedGone = FALSE])

UiNext ==
    \/ Tick
    \/ \E url \in Urls : Mount(url)
    \/ AutoJoinTimer
    \/ ShowJoinView
    \/ BackToHome
    \/ \E text \in Typed : TypeJoinCode(text)
    \/ ClickJoin
    \/ \E result \in RoomAnswers(now) : JoinRoomReturns(result)
    \/ ClickCreate
    \/ \E result \in {<<>>, <<[lastActivity |-> now]>>} : CreateRoomReturns(result)
    \/ PollRoom
    \/ \E result \in RoomAnswers(now) : PollRoomReturns(result)
    \/ CountdownTick
    \/ ClickEndRoom
    \/ \E ok \in BOOLEAN : EndRoomReturns(ok)
    \/ TypeMessage
    \/ ClickSend
    \/ \E ok \in BOOLEAN : SendMessageReturns(ok)
    \/ ClickLeave
    \/ LeaveRoomReturns

UiSpec == Init /\ [][UiNext]_vars

\* ============================================================ claims
\* Two stored values are the same room: same creator, same creation time.
SameRoom(r1, r2) == r1.creator = r2.creator /\ r1.createdAt = r2.createdAt

IsPrefix(s1, s2) == Len(s1) <= Len(s2) /\ SubSeq(s2, 1, Len(s1)) = s1

\* C1.  Messages are append-only: while a room stays stored, the messages
\* getMessages returns before a step are a prefix of those it returns after
\* the step, for every step of every interleaving.
C1_MessagesAppendOnly ==
    [][\A c \in DOMAIN rooms \cap DOMAIN rooms' :
          SameRoom(rooms[c], rooms'[c])
              => IsPrefix(getMessages(rooms, c), getMessages(rooms', c))]_vars

\* C2.  Two joinRoom calls are suspended on the same live room, each having
\* read the room as it is stored now; they resume one after the other with
\* distinct session ids and nothing in between.  Then both return Ok and both
\* session ids are participants of the stored room.
C2_BothJoinersStored ==
    \A i, j \in DOMAIN calls : \A a, b \in SessionIds :
        (/\ i # j /\ a # b
         /\ calls[i].pc = "jr_sid" /\ calls[j].pc = "jr_sid"
         /\ calls[i].roomCode = calls[j].roomCode
         /\ calls[i].roomCode \in DOMAIN rooms
         /\ calls[i].room = rooms[calls[i].roomCode]
         /\ calls[j].room = rooms[calls[i].roomCode]
         /\ ~Expired(rooms[calls[i].roomCode], now))
        => LET c == calls[i].roomCode
               o1 == joinRoomSession(rooms, sessions, userCounter, now, calls[i], a)
               o2 == joinRoomSession(o1.rooms, o1.sessions, o1.userCounter, now,
                                     calls[j], b)
           IN /\ o1.result.tag = "Ok" /\ o1.result.value.sessionId = a
              /\ o2.result.tag = "Ok" /\ o2.result.value.sessionId = b
              /\ c \in DOMAIN o2.rooms
              /\ {a, b} \subseteq SidsOf(o2.rooms[c].participants)

\* C3.  No path back from Deleted: a room that a suspended joinRoom read and
\* that has since been removed from the store is not in the store after any
\* step (in particular not after that joinRoom resumes).
C3_NoPathBackFromDeleted ==
    [][\A i \in DOMAIN calls :
          (/\ calls[i].pc = "jr_sid"
           /\ \/ calls[i].roomCode \notin DOMAIN rooms
              \/ ~SameRoom(rooms[calls[i].roomCode], calls[i].room))
          => ~(/\ calls[i].roomCode \in DOMAIN rooms'
               /\ SameRoom(rooms'[calls[i].roomCode], calls[i].room))]_vars

\* A joinRoom on code c that had read the room without sid among its
\* participants returns in this step with sid as its generated session id.
JoinedAs(c, sid) ==
    \E i \in DOMAIN calls :
        /\ calls[i].pc = "jr_sid"
        /\ calls[i].roomCode = c
        /\ sid \notin SidsOf(calls[i].room.participants)
        /\ calls' = Resumed(calls, i, Idle)
        /\ rooms' = joinRoomSession(rooms, sessions, userCounter, now, calls[i], sid).rooms

\* C4.  The creator is never added back automatically: when the creator of a
\* stored room is not among its participants, it is not among them after any
\* step that keeps the room stored, unless that step is a joinRoom returning
\* the creator's own session id.
C4_CreatorNotAddedBack ==
    [][\A c \in DOMAIN rooms \cap DOMAIN rooms' :
          (/\ SameRoom(rooms[c], rooms'[c])
           /\ rooms[c].creator \notin SidsOf(rooms[c].participants)
           /\ ~JoinedAs(c, rooms[c].creator))
          => rooms'[c].creator \notin SidsOf(rooms'[c].participants)]_vars

\* C5.  Room codes are unique: whenever a suspended createRoom resumes with a
\* generated code and returns Ok, that code was absent from the store and the
\* store afterwards is the store before plus the new room (no room is
\* overwritten or replaced); every stored room is stored under its own code.
C5_CodeUnique ==
    /\ \A c \in DOMAIN rooms : rooms[c].code = c
    /\ \A i \in DOMAIN calls : \A code \in Codes :
          calls[i].pc \in {"cr_code", "cr_retry"}
          => LET o == createRoomCode(rooms, now, calls[i], code)
             IN o.result.tag = "Ok"
                => /\ code \notin DOMAIN rooms
                   /\ o.result.value.roomCode = code
                   /\ DOMAIN o.rooms = DOMAIN rooms \cup {code}
                   /\ o.rooms[code].code = code
                   /\ \A c \in DOMAIN rooms : o.rooms[c] = rooms[c]

\* C5 witness: two rooms are live under different codes while a third
\* createRoom, whose generated code collided, is retrying.
C5_Witness ==
    /\ Cardinality(DOMAIN rooms) = 2
    /\ \E i \in DOMAIN calls : calls[i].pc = "cr_retry"

StrictlyIncreasingIds(messages) ==
    \A k \in 1..(Len(messages) - 1) : messages[k].id < messages[k + 1].id

\* C6.  Message ids come from one counter without gaps or reuse: the counter
\* equals the number of successful sends so far, the next successful send (on
\* any room) returns exactly that number as its id and advances the counter by
\* one, a failed send leaves the counter alone, and in every stored room the
\* ids are strictly increasing and below the counter.
C6_MessageIds ==
    /\ messageIdCounter = okSends
    /\ \A c \in Codes, sid \in SessionIds, m \in Contents :
          LET o == sendMessage(rooms, sessions, messageIdCounter, now, c, sid, m)
          IN IF o.result.tag = "Ok"
             THEN /\ o.result.value.id = okSends
                  /\ o.messageIdCounter = messageIdCounter + 1
             ELSE o.messageIdCounter = messageIdCounter
    /\ \A c \in DOMAIN rooms :
          /\ StrictlyIncreasingIds(rooms[c].messages)
          /\ \A k \in DOMAIN rooms[c].messages : rooms[c].messages[k].id < messageIdCounter

\* C6 witness: two sends succeeded, one in each of two live rooms.
C6_Witness ==
    /\ okSends = 2
    /\ \E c1, c2 \in DOMAIN rooms :
          /\ c1 # c2
          /\ Len(rooms[c1].messages) = 1 /\ rooms[c1].messages[1].id = 0
          /\ Len(rooms[c2].messages) = 1 /\ rooms[c2].messages[1].id = 1

\* C7.  Lazy expiry is final: a stored room that is expired before a step is,
\* after the step, either gone from the store or still expired; no step makes
\* it live again.
C7_ExpiryIsFinal ==
    [][\A c \in DOMAIN rooms :
          (Expired(rooms[c], now) /\ c \in DOMAIN rooms')
              => Expired(rooms'[c], now')]_vars

\* C8.  Expired is distinguished from NotFound: on a code whose room is stored
\* but expired, joinRoom and sendMessage return Err "Room has expired" and
\* leave the code absent; on a code absent from the store they return
\* Err "Room not found".
C8_ExpiredDistinctFromNotFound ==
    \A c \in Codes, sid \in SessionIds, p \in Principals, m \in Contents :
        LET j == joinRoomBegin(rooms, sessions, now, p, c)
            s == sendMessage(rooms, sessions, messageIdCounter, now, c, sid, m)
        IN /\ (c \in DOMAIN rooms /\ Expired(rooms[c], now))
                => /\ j.result = Err("Room has expired")
                   /\ s.result = Err("Room has expired")
                   /\ c \notin DOMAIN j.rooms
                   /\ c \notin DOMAIN s.rooms
           /\ c \notin DOMAIN rooms
                => /\ j.result = Err("Room not found")
                   /\ s.result = Err("Room not found")

\* C9.  No read path returns an expired room: for a code whose stored room is
\* expired, getRoom returns no room and getMessages the empty sequence.
C9_ReadsHideExpired ==
    \A c \in DOMAIN rooms :
        Expired(rooms[c], now)
            => /\ getRoom(rooms, c) = <<>>
               /\ getMessages(rooms, c) = <<>>

\* C10.  Expired rooms are eventually deleted: with time passing and the sweep
\* running whenever it has something to sweep, a stored room that is expired
\* is eventually absent from the store.
C10_ExpiredEventuallyDeleted ==
    \A c \in Codes :
        (c \in DOMAIN rooms /\ Expired(rooms[c], now)) ~> (c \notin DOMAIN rooms)

NoDuplicateSessionId(participants) ==
    \A j, k \in DOMAIN participants :
        j # k => participants[j].sessionId # participants[k].sessionId

\* C11.  No stored room has two participants with the same session id, in
\* every reachable state; and whatever session id a suspended joinRoom
\* resumes with (one already in the room it read, one that joined since, or a
\* new one), the room it stores has none either.
C11_NoDuplicateParticipants ==
    /\ \A c \in DOMAIN rooms : NoDuplicateSessionId(rooms[c].participants)
    /\ \A i \in DOMAIN calls : \A sid \in SessionIds :
          calls[i].pc = "jr_sid"
          => LET o == joinRoomSession(rooms, sessions, userCounter, now, calls[i], sid)
             IN \A c \in DOMAIN o.rooms : NoDuplicateSessionId(o.rooms[c].participants)

\* C11 witness: a joinRoom is suspended on a stored room that has two
\* participants and whose participants changed since the call read them.
C11_Witness ==
    \E i \in DOMAIN calls :
        /\ calls[i].pc = "jr_sid"
        /\ calls[i].roomCode \in DOMAIN rooms
        /\ Len(rooms[calls[i].roomCode].participants) = 2
        /\ calls[i].room.participants # rooms[calls[i].roomCode].participants

\* In the state as it is, each mutation of a room stamps it with the current
\* time: a joinRoom that adds a member, a sendMessage that returns Ok, a
\* leaveRoom that leaves the room stored.
BumpsToNow ==
    /\ \A c \in DOMAIN rooms : rooms[c].lastActivity <= now
    /\ \A i \in DOMAIN calls : \A sid \in SessionIds :
          (calls[i].pc = "jr_sid" /\ sid \notin SidsOf(calls[i].room.participants))
          => LET o == joinRoomSession(rooms, sessions, userCounter, now, calls[i], sid)
             IN /\ calls[i].roomCode \in DOMAIN o.rooms
                /\ o.rooms[calls[i].roomCode].lastActivity = now
    /\ \A c \in Codes, sid \in SessionIds, m \in Contents :
          LET o == sendMessage(rooms, sessions, messageIdCounter, now, c, sid, m)
          IN o.result.tag = "Ok"
                => c \in DOMAIN o.rooms /\ o.rooms[c].lastActivity = now
    /\ \A c \in Codes, sid \in SessionIds :
          LET o == leaveRoom(rooms, now, c, sid)
          IN c \in DOMAIN o.rooms => o.rooms[c].lastActivity = now

\* C12.  With the clock never going back, the lastActivity stored under a code
\* never decreases across a step, and joinRoom, sendMessage and leaveRoom set
\* it to the time of the call whenever they store the room.
C12_LastActivityMonotonic ==
    /\ []BumpsToNow
    /\ [][\A c \in DOMAIN rooms \cap DOMAIN rooms' :
             rooms[c].lastActivity <= rooms'[c].lastActivity]_vars

\* C12 witness: a room with a second member and a message whose last activity
\* is later than its creation.
C12_Witness ==
    \E c \in DOMAIN rooms :
        /\ Len(rooms[c].participants) = 2
        /\ Len(rooms[c].messages) >= 1
        /\ rooms[c].lastActivity > rooms[c].createdAt
        /\ rooms[c].lastActivity = now

\* C13.  Idempotent join: a suspended joinRoom that resumes with a session id
\* already among the participants of the stored room returns Ok and leaves
\* the stored room as it is (same participants, same lastActivity).
C13_JoinIdempotent ==
    \A i \in DOMAIN calls : \A sid \in SessionIds :
        (/\ calls[i].pc = "jr_sid"
         /\ calls[i].roomCode \in DOMAIN rooms
         /\ sid \in SidsOf(rooms[calls[i].roomCode].participants))
        => LET c == calls[i].roomCode
               o == joinRoomSession(rooms, sessions, userCounter, now, calls[i], sid)
           IN /\ o.result.tag = "Ok"
              /\ c \in DOMAIN o.rooms
              /\ o.rooms[c].participants = rooms[c].participants
              /\ o.rooms[c].lastActivity = rooms[c].lastActivity

\* C14.  leaveRoom by the only participant of a stored room deletes the room:
\* getRoom then returns no room and getMessages the empty sequence.  A
\* leaveRoom that leaves somebody in the room keeps it stored, with the others
\* in their order, whether or not the leaver was the creator.
C14_LastLeaveDeletes ==
    \A c \in DOMAIN rooms : \A sid \in SessionIds :
        LET o == leaveRoom(rooms, now, c, sid)
            others == {s \in SidsOf(rooms[c].participants) : s # sid}
        IN IF others = {}
           THEN /\ c \notin DOMAIN o.rooms
                /\ getRoom(o.rooms, c) = <<>>
                /\ getMessages(o.rooms, c) = <<>>
           ELSE /\ c \in DOMAIN o.rooms
                /\ SidsOf(o.rooms[c].participants) = others
                /\ sid \notin SidsOf(o.rooms[c].participants)
                /\ o.rooms[c].messages = rooms[c].messages

\* C14 witness: the creator has left a room that is still stored, with its
\* messages, for the one participant who remains (and who can leave last).
C14_Witness ==
    \E c \in DOMAIN rooms :
        /\ rooms[c].creator \notin SidsOf(rooms[c].participants)
        /\ Len(rooms[c].participants) = 1
        /\ Len(rooms[c].messages) >= 1

\* C15.  leaveRoom returns false exactly when the code is absent from the
\* store; on a stored room it returns true for members and non-members alike,
\* and for a non-member the room stays stored with the same participants and
\* messages.
C15_LeaveResult ==
    \A c \in Codes, sid \in SessionIds :
        LET o == leaveRoom(rooms, now, c, sid)
        IN /\ (o.result = FALSE) <=> (c \notin DOMAIN rooms)
           /\ c \in DOMAIN rooms => o.result = TRUE
           /\ c \notin DOMAIN rooms => o.rooms = rooms
           /\ (c \in DOMAIN rooms /\ sid \notin SidsOf(rooms[c].participants))
                => /\ c \in DOMAIN o.rooms
                   /\ o.rooms[c].participants = rooms[c].participants
                   /\ o.rooms[c].messages = rooms[c].messages

\* C15 witness: the only create/join call ever made created a room, nothing
\* was sent, and the room's activity is later than its creation: a leaveRoom
\* by a non-member has acted on it.  The other code is absent from the store.
C15_Witness ==
    /\ started = 1 /\ okSends = 0 /\ calls = <<>>
    /\ Cardinality(DOMAIN rooms) = 1
    /\ \E c \in DOMAIN rooms :
          /\ Len(rooms[c].participants) = 1
          /\ rooms[c].lastActivity > rooms[c].createdAt

\* C16.  endRoom with a session id other than the creator's returns false and
\* leaves the whole store as it is, also when that session is a participant.
C16_EndRoomNonCreator ==
    \A c \in DOMAIN rooms : \A sid \in SessionIds :
        sid # rooms[c].creator
        => LET o == endRoom(rooms, c, sid)
           IN o.result = FALSE /\ o.rooms = rooms

\* C16 witness: a stored room with a participant who is not its creator, and
\* a second room.
C16_Witness ==
    /\ Cardinality(DOMAIN rooms) = 2
    /\ \E c \in DOMAIN rooms :
          \E k \in DOMAIN rooms[c].participants :
              rooms[c].participants[k].sessionId # rooms[c].creator

\* C17.  endRoom with the creator's session id on a stored room returns true,
\* removes that room and no other, whatever the age of the room, whether or
\* not the creator is still a participant or still has a session record.
C17_EndRoomCreator ==
    \A c \in DOMAIN rooms :
        LET o == endRoom(rooms, c, rooms[c].creator)
        IN /\ o.result = TRUE
           /\ DOMAIN o.rooms = DOMAIN rooms \ {c}
           /\ \A x \in DOMAIN o.rooms : o.rooms[x] = rooms[x]

\* C17 witness: a stored room that is expired, whose creator has left it and
\* whose creator's session record has been swept.
C17_Witness ==
    \E c \in DOMAIN rooms :
        /\ Expired(rooms[c], now)
        /\ rooms[c].creator \notin SidsOf(rooms[c].participants)
        /\ rooms[c].creator \notin DOMAIN sessions

\* C18.  sendMessage on a live room with a session id that is not among its
\* participants returns Err "You are not a member of this room" and leaves
\* the room and the message id counter as they are.
C18_NotAMember ==
    \A c \in DOMAIN rooms : \A sid \in SessionIds, m \in Contents :
        (~Expired(rooms[c], now) /\ sid \notin SidsOf(rooms[c].participants))
        => LET o == sendMessage(rooms, sessions, messageIdCounter, now, c, sid, m)
           IN /\ o.result.tag = "Err"
              /\ o.result.text = "You are not a member of this room"
              /\ c \in DOMAIN o.rooms
              /\ o.rooms[c] = rooms[c]
              /\ o.messageIdCounter = messageIdCounter

\* C18 witness: a live room holds a message whose sender has since left it.
C18_Witness ==
    \E c \in DOMAIN rooms :
        /\ ~Expired(rooms[c], now)
        /\ \E k \in DOMAIN rooms[c].messages :
              rooms[c].messages[k].sender \notin SidsOf(rooms[c].participants)

C20_SessionExpiryIndependent ==
    /\ \A c \in DOMAIN rooms : \A sid \in SessionIds, m \in Contents :
          (/\ ~Expired(rooms[c], now)
           /\ sid \in SidsOf(rooms[c].participants)
           /\ sid \notin DOMAIN SweepSessions(sessions, now))
          => LET o == sendMessage(rooms, sessions, messageIdCounter, now, c, sid, m)
             IN /\ o.result.tag = "Ok"
                /\ o.result.value.sender = sid
                /\ o.result.value.senderName
                      = FindUser(rooms[c].participants, sid).displayName
                /\ o.rooms[c].participants = rooms[c].participants
    /\ \A c \in DOMAIN SweepRooms(rooms, now) : SweepRooms(rooms, now)[c] = rooms[c]
    /\ \A c \in DOMAIN rooms : ~Expired(rooms[c], now) => c \in DOMAIN SweepRooms(rooms, now)

\* C20 witness: a participant of a stored room has no session record and has
\* sent a message later than SESSION_TIMEOUT after joining.
C20_Witness ==
    \E c \in DOMAIN rooms :
        \E k \in DOMAIN rooms[c].participants, j \in DOMAIN rooms[c].messages :
            /\ rooms[c].participants[k].sessionId \notin DOMAIN sessions
            /\ rooms[c].messages[j].sender = rooms[c].participants[k].sessionId
            /\ rooms[c].messages[j].timestamp - rooms[c].participants[k].joinedAt
                  > SESSION_TIMEOUT

\* The display names held anywhere in the state: in the registry, in the
\* rooms (participants and messages) and in the suspended calls.
RoomNames(room) ==
    {room.participants[k].displayName : k \in DOMAIN room.participants}
        \cup {room.messages[k].senderName : k \in DOMAIN room.messages}

CallNames(call) ==
    IF call.pc \in {"cr_code", "cr_retry"} THEN {call.user.displayName}
    ELSE IF call.pc = "jr_sid" THEN RoomNames(call.room)
    ELSE {}

NamesInUse ==
    {sessions[x].displayName : x \in DOMAIN sessions}
        \cup UNION {RoomNames(rooms[c]) : c \in DOMAIN rooms}
        \cup UNION {CallNames(calls[i]) : i \in DOMAIN calls}

\* In the state as it is: every name allocated so far is "User n" with n at
\* most the counter; resolving an unknown session id allocates "User n" with
\* n the counter plus one, a name held nowhere, and stores that record;
\* resolving a known one returns the stored record, whoever calls, and
\* changes neither the registry nor the counter.
RegistryAllocates ==
    /\ NamesInUse \subseteq {DisplayName(n) : n \in 1..userCounter}
    /\ \A sid \in SessionIds, p \in Callers :
          LET r == createOrGetUser(sessions, userCounter, sid, p, now)
          IN IF sid \in DOMAIN sessions
             THEN /\ r.user = sessions[sid]
                  /\ r.sessions = sessions
                  /\ r.userCounter = userCounter
             ELSE /\ r.userCounter = userCounter + 1
                  /\ r.user.displayName = DisplayName(userCounter + 1)
                  /\ r.user.displayName \notin NamesInUse
                  /\ r.user.principal = p /\ r.user.joinedAt = now
                  /\ r.sessions = Put(sessions, sid, r.user)

\* C21.  Display names are numbered by a counter that only grows: a new
\* participant gets a number above every number given before, also after
\* records were swept, and a known session id resolves to its stored record
\* unchanged (first caller's identity kept) without advancing the counter.
C21_SessionRegistry ==
    /\ []RegistryAllocates
    /\ [][userCounter' >= userCounter]_vars

\* C21 witness: a participant's record has been swept from the registry, and
\* a createRoom made by another caller than the one a stored record names has
\* resolved the session id of that record.
C21_Witness ==
    /\ \E c \in DOMAIN rooms : \E k \in DOMAIN rooms[c].participants :
          rooms[c].participants[k].sessionId \notin DOMAIN sessions
    /\ \E i \in DOMAIN calls :
          /\ calls[i].pc = "cr_code"
          /\ calls[i].caller # calls[i].user.principal
          /\ calls[i].sessionId \in DOMAIN sessions

\* C22.  The sweep removes exactly the stored rooms with
\* now - lastActivity > SESSION_TIMEOUT and keeps every other room as it is;
\* a room is kept iff isRoomValid holds for it, and a room exactly
\* SESSION_TIMEOUT old is valid and kept.
C22_SweepExact ==
    LET swept == SweepRooms(rooms, now)
    IN /\ DOMAIN swept \subseteq DOMAIN rooms
       /\ \A c \in DOMAIN rooms :
             /\ (c \notin DOMAIN swept) <=> (now - rooms[c].lastActivity > SESSION_TIMEOUT)
             /\ (c \in DOMAIN swept) <=> isRoomValid(rooms, c, now)
             /\ c \in DOMAIN swept => swept[c] = rooms[c]
             /\ (now - rooms[c].lastActivity = SESSION_TIMEOUT)
                   => (c \in DOMAIN swept /\ isRoomValid(rooms, c, now))
       /\ \A c \in Codes \ DOMAIN rooms : ~isRoomValid(rooms, c, now)

\* C22 witness: of two stored rooms one is exactly SESSION_TIMEOUT old and the
\* other older.
C22_Witness ==
    \E c1, c2 \in DOMAIN rooms :
        /\ now - rooms[c1].lastActivity = SESSION_TIMEOUT
        /\ now - rooms[c2].lastActivity > SESSION_TIMEOUT

\* C23.  What getRoom returns is never half updated: the room's lastActivity
\* is at least its createdAt and at least the timestamp of each of its
\* messages.
C23_NoStaleActivity ==
    \A c \in Codes :
        \A n \in DOMAIN getRoom(rooms, c) :
            LET room == getRoom(rooms, c)[n]
            IN /\ room.lastActivity >= room.createdAt
               /\ \A k \in DOMAIN room.messages :
                     room.lastActivity >= room.messages[k].timestamp

\* C23 witness: a room with two messages sent at different times, the last
\* one at the room's last activity.
C23_Witness ==
    \E c \in DOMAIN rooms :
        /\ Len(rooms[c].messages) = 2
        /\ rooms[c].messages[1].timestamp < rooms[c].messages[2].timestamp
        /\ rooms[c].messages[2].timestamp = rooms[c].lastActivity

\* A suspended createRoom has asked for at most 11 room codes (a call in its
\* k-th retry holds attempts = k - 1), and the 11th code ends the call
\* whatever it is.
GenerationsBounded ==
    \A i \in DOMAIN calls :
        calls[i].pc \in {"cr_code", "cr_retry"}
        => /\ calls[i].attempts + 2 <= MAX_ATTEMPTS + 1
           /\ Attempts(calls[i]) = MAX_ATTEMPTS
                 => \A code \in Codes :
                       createRoomCode(rooms, now, calls[i], code).result.tag
                           \in {"Ok", "Err"}

\* C24.  createRoom terminates: if every await returns, the suspended
\* createRoom calls all return, each after at most 11 room-code generations,
\* however many of the generated codes collide and whatever endRoom or other
\* createRoom calls run in between.
C24_CreateRoomTerminates ==
    /\ []GenerationsBounded
    /\ (calls # <<>>) ~> (calls = <<>>)

\* C24 witness: every code is taken by a stored room and a createRoom is in
\* its 10th retry.
C24_Witness ==
    /\ Codes \subseteq DOMAIN rooms
    /\ \E i \in DOMAIN calls : calls[i].pc = "cr_retry" /\ calls[i].attempts = 9

\* Call i is a createRoom that returns in this step without storing a room:
\* it returns Err "Failed to generate unique room code".
FailsNow(i) ==
    /\ calls[i].pc \in {"cr_code", "cr_retry"}
    /\ calls' = Resumed(calls, i, Idle)
    /\ \E code \in Codes :
          /\ createRoomCode(rooms, now, calls[i], code).result
                = Err("Failed to generate unique room code")
          /\ rooms' = createRoomCode(rooms, now, calls[i], code).rooms

\* Call i is a createRoom that resolves its session id in this step.
ResolvesSession(i) ==
    /\ calls[i].pc = "cr_sid"
    /\ Len(calls') = Len(calls)
    /\ calls'[i].pc = "cr_code"

\* C26 as stated.  A createRoom that fails adds and modifies no room, and
\* every createRoom (it may fail later) leaves, at its session step, exactly
\* one new session record and the display-name counter advanced by one.
C26_OneNewSessionAlways ==
    [][\A i \in DOMAIN calls :
          /\ FailsNow(i) => rooms' = rooms
          /\ ResolvesSession(i)
                => /\ calls'[i].sessionId \notin DOMAIN sessions
                   /\ DOMAIN sessions' = DOMAIN sessions \cup {calls'[i].sessionId}
                   /\ userCounter' = userCounter + 1]_vars

\* C26 as amended.  A createRoom that fails adds and modifies no room; the
\* failing step changes nothing but the call itself, and the session record
\* the call resolved is still in the registry (no rollback).  At its session
\* step the call leaves one new record and the counter advanced by one when
\* the generated session id was not registered, and changes neither when it
\* was; in both cases the rooms and the other records stay as they are.
C26_FailedCreateEffects ==
    [][\A i \in DOMAIN calls :
          /\ FailsNow(i)
                => /\ rooms' = rooms
                   /\ sessions' = sessions
                   /\ userCounter' = userCounter
                   /\ messageIdCounter' = messageIdCounter
                   /\ calls[i].sessionId \in DOMAIN sessions'
                   /\ sessions'[calls[i].sessionId] = calls[i].user
          /\ ResolvesSession(i)
                => /\ rooms' = rooms
                   /\ \A x \in DOMAIN sessions : 
                         x \in DOMAIN sessions' /\ sessions'[x] = sessions[x]
                   /\ calls'[i].sessionId \in DOMAIN sessions'
                   /\ sessions'[calls'[i].sessionId] = calls'[i].user
                   /\ IF calls'[i].sessionId \in DOMAIN sessions
                      THEN sessions' = sessions /\ userCounter' = userCounter
                      ELSE /\ DOMAIN sessions' = DOMAIN sessions \cup {calls'[i].sessionId}
                           /\ userCounter' = userCounter + 1]_vars

\* C26 witness: three createRoom calls have returned; the first two created
\* the two stored rooms, so the third failed, and its session record and its
\* display-name number are still there.
C26_Witness ==
    /\ started = 3 /\ calls = <<>>
    /\ userCounter = 3 /\ Cardinality(DOMAIN sessions) = 3
    /\ {rooms[c].participants[1].displayName : c \in DOMAIN rooms}
          = {DisplayName(1), DisplayName(2)}
    /\ \A c \in DOMAIN rooms : rooms[c].creator = rooms[c].participants[1].sessionId

\* In the state as it is: no assertion has failed; the code holds one
\* character of the alphabet per loop pass made; a returned code has exactly
\* the length asked for; and whatever the next blob is, every index
\* sampled from it is below the alphabet's size.
GeneratorExact ==
    /\ gen.pc # "trap"
    /\ gen.pc \in {"blob", "done"}
          => /\ Len(gen.code) = gen.i
             /\ gen.i <= gen.length
             /\ \A k \in DOMAIN gen.code : \E j \in DOMAIN alphabet : gen.code[k] = alphabet[j]
    /\ gen.pc = "done"
          => /\ Len(gen.code) = gen.length
             /\ gen.length \in {6, 12}
    /\ \A blob \in Blobs :
          LET r == sampleIndex(blob, Len(alphabet))
          IN r.value # <<>> => r.value[1] < 36

\* C25.  Code generation is exact and cannot fail: generateRoomCode returns 6
\* characters and generateSessionId 12, the assertion of charAt never fails,
\* and a refill of the entropy in the middle of a code keeps the characters
\* produced so far, in their order, and goes on from there.
C25_GenerationExact ==
    /\ []GeneratorExact
    /\ [][(gen.pc = "blob" /\ gen'.pc # "none")
             => /\ gen'.length = gen.length
                /\ IsPrefix(gen.code, gen'.code)
                /\ gen'.pc = "blob" => gen'.i >= gen.i]_vars

\* C25 witness: a session id of 12 characters has been produced (over several
\* refills, a blob being shorter than the id) with both the first and the
\* last character of the alphabet in it.
C25_Witness ==
    /\ gen.pc = "done"
    /\ gen.length = 12
    /\ \E j, k \in DOMAIN gen.code : gen.code[j] = "A" /\ gen.code[k] = "9"

\* The joinRoom calls the auto-join timer issued.
AutoJoins == {j \in ui.issued : j.by = "timer"}

\* C27.  Auto-join from a share link: once the timer armed at mount for a
\* refID of exactly 6 characters has fired, joinRoom has been issued with that
\* refID in upper case; for a refID of another length, or none, no timer is
\* armed and no joinRoom is issued without a click.
C27_AutoJoin ==
    ui.pc = "mounted"
    => /\ (ui.mountUrl # <<>> /\ Len(ui.mountUrl[1]) = 6)
             => /\ ui.timer # "none"
                /\ ui.timer = "fired"
                      => AutoJoins = {[roomCode |-> toUpperCase(ui.mountUrl[1]),
                                       by |-> "timer"]}
       /\ ~(ui.mountUrl # <<>> /\ Len(ui.mountUrl[1]) = 6)
             => ui.timer = "none" /\ AutoJoins = {}

\* C28.  In the room view, once the poll has seen the room gone and raised
\* the expired flag, the flag stays raised as long as the user stays in the
\* room, whatever poll and countdown steps follow.
C28_ExpiredFlagSticks ==
    [][(/\ ui.pc = "mounted"
        /\ ui.currentView = "room" /\ ui.observedGone /\ ui.isExpired
        /\ ui'.currentView = "room")
       => ui'.isExpired]_vars

=============================================================================
